---- MODULE Spec2Model ----
(***************************************************************************)
(* A model of ghpythonutil: the TreeHandler decorator (treehandler.py),    *)
(* which broadcasts a user function over Grasshopper DataTrees, and the    *)
(* RhinoDocContext context manager (contextmanager.py).                    *)
(*                                                                         *)
(* A DataTree is a sequence of branches [path, items] kept sorted by path, *)
(* as the host's sorted list keeps it.  Python lists are sequences;        *)
(* Python's 0-based indices are kept and converted where a sequence is     *)
(* read.                                                                   *)
(***************************************************************************)
EXTENDS Integers, Sequences, FiniteSets, TLC

\* Largest index of a one-level path in an input tree.
MaxIdx == 2
\* Longest flat list passed as an argument.
MaxLen == 2
\* Number of RhinoDocContext objects a script constructs.
MaxCtx == 2
\* Deepest nesting of with-blocks.
MaxNest == 3

VARIABLES
    phase,         \* position of the decorator: undecorated, ready, running, ...
    nargs,         \* number of broadcastable parameters of the user function
    kind,          \* what the user function returns: "value" or "list"
    access,        \* self.access: the parsed access tags
    rawTypes,      \* the kind of each raw call argument: scalar, list, tree
    args,          \* the call's arguments after __toTree
    dims,          \* the _Dimension of each argument
    matchedDim,    \* the matched _Dimension
    pathsIndices,  \* the coordinates __call__ iterates over
    pos,           \* number of coordinates already visited
    result,        \* the output DataTree
    added,         \* history: the paths given to AddRange, in order
    calls,         \* history: the user function's invocations, in order
    err,           \* the exception that ended decoration or the call
    scdoc,         \* scriptcontext.doc, the active document pointer
    ctxs,          \* the RhinoDocContext objects constructed so far
    stack,         \* the with-blocks entered and not yet exited
    raising,       \* an exception is unwinding the with-blocks
    exitLog        \* history: the last __exit__

thVars == <<phase, nargs, kind, access, rawTypes, args, dims, matchedDim,
            pathsIndices, pos, result, added, calls, err>>
ctxVars == <<scdoc, ctxs, stack, raising, exitLog>>
vars == <<phase, nargs, kind, access, rawTypes, args, dims, matchedDim,
          pathsIndices, pos, result, added, calls, err,
          scdoc, ctxs, stack, raising, exitLog>>

----------------------------------------------------------------------------
(* Python and host-library helpers *)

Min(a, b) == IF a < b THEN a ELSE b

Max(a, b) == IF a > b THEN a ELSE b

MaxOf(S) == CHOOSE m \in S : \A x \in S : x <= m

Range(s) == {s[i] : i \in DOMAIN s}

\* A Python list built by a comprehension: the sequence s itself, as a
\* tuple.
ListOf(s) == s \o <<>>

\* s[k] for a Python list s and a 0-based, possibly negative, index k.
PyIndexOK(s, k) == IF k >= 0 THEN k < Len(s) ELSE -k <= Len(s)

PyIndex(s, k) == IF k >= 0 THEN s[k + 1] ELSE s[Len(s) + k + 1]

\* s[j : k] for a Python list s.
PySliceBound(s, x) == IF x < 0 THEN Max(x + Len(s), 0) ELSE Min(x, Len(s))

PySlice(s, j, k) == SubSeq(s, PySliceBound(s, j) + 1, PySliceBound(s, k))

\* GH_Path ordering: component by component, a proper prefix first.
RECURSIVE PathLess(_, _)
PathLess(p, q) ==
    IF p = <<>> THEN q # <<>>
    ELSE IF q = <<>> THEN FALSE
    ELSE IF Head(p) # Head(q) THEN Head(p) < Head(q)
    ELSE PathLess(Tail(p), Tail(q))

TreePaths(tree) == ListOf([k \in 1..Len(tree) |-> tree[k].path])

HasPath(tree, path) == \E k \in 1..Len(tree) : tree[k].path = path

\* tree.Branch(path): the branch at the path, if the tree has one.
Branch(tree, path) ==
    IF HasPath(tree, path)
    THEN [found |-> TRUE,
          items |-> tree[CHOOSE k \in 1..Len(tree) : tree[k].path = path].items]
    ELSE [found |-> FALSE, items |-> <<>>]

\* tree.AddRange(items, path): appends to the branch, creating it in
\* path order when the tree has none.
AddRange(tree, items, path) ==
    IF HasPath(tree, path)
    THEN ListOf([k \in 1..Len(tree) |->
                    IF tree[k].path = path
                    THEN [path |-> path, items |-> tree[k].items \o items]
                    ELSE tree[k]])
    ELSE LET n == Cardinality({k \in 1..Len(tree) : PathLess(tree[k].path, path)})
         IN  SubSeq(tree, 1, n) \o <<[path |-> path, items |-> items]>>
             \o SubSeq(tree, n + 1, Len(tree))

----------------------------------------------------------------------------
(* The inputs of a call *)

\* The item stored at 0-based position k of the branch at path p of
\* argument a.
Item(a, p, k) == [tag |-> "item", arg |-> a, path |-> p, k |-> k]

BranchOf(a, p, n) ==
    [path |-> p, items |-> ListOf([k \in 1..n |-> Item(a, p, k - 1)])]

RECURSIVE SortPaths(_)
SortPaths(S) ==
    IF S = {} THEN <<>>
    ELSE LET m == CHOOSE p \in S : \A q \in S : p = q \/ PathLess(p, q)
         IN  <<m>> \o SortPaths(S \ {m})

\* The branch lengths of the DataTrees passed as arguments.
BranchLens == {1, 2}

\* A DataTree of argument a: the paths of S, every branch n items long.
MakeTree(a, S, n) ==
    LET ps == SortPaths(S) IN ListOf([k \in 1..Len(ps) |-> BranchOf(a, ps[k], n)])

Paths1 == {<<i>> : i \in 0..MaxIdx}

Paths2 == {<<i, j>> : i \in 0..1, j \in 0..1}

\* Trees of one or of two levels, ragged ones included.
PathSets == ((SUBSET Paths1) \cup (SUBSET Paths2)) \ {{}}

\* What a caller passes for parameter a: a scalar, a flat list (the empty
\* list becomes a tree of one empty branch) or a DataTree.
RawArgsOf(a) ==
    {[type |-> "scalar", items |-> <<Item(a, <<0>>, 0)>>, tree |-> <<>>]}
    \cup {[type |-> "list", items |-> BranchOf(a, <<0>>, n).items,
           tree |-> <<>>] : n \in 0..MaxLen}
    \cup {[type |-> "tree", items |-> <<>>, tree |-> MakeTree(a, S, n)] :
             S \in PathSets, n \in BranchLens}

\* The argument lists of a call of a function of n parameters.
CallArgs1 == {<<x>> : x \in RawArgsOf(1)}

CallArgs2 == {<<x, y>> : x \in RawArgsOf(1), y \in RawArgsOf(2)}

CallArgs(n) == IF n = 1 THEN CallArgs1 ELSE CallArgs2

----------------------------------------------------------------------------
(* TreeHandler *)

_DEFAULT_ARG == "access"

ACCESS_item == 0

ACCESS_tree == 0

ACCESS_list == 1

Tags == {"item", "tree", "list", "point"}

_ACCESS_DICT == [key \in {"item", "tree", "list"} |->
                    CASE key = "item" -> ACCESS_item
                      [] key = "tree" -> ACCESS_tree
                      [] key = "list" -> ACCESS_list]

\* The user functions decorated: one or two broadcastable parameters,
\* followed or not by the parameter `access` with a list of tags as its
\* default.
Signatures ==
    {[params |-> ps, defaults |-> <<tags>>, kind |-> kd] :
        ps \in {<<"p", "access">>, <<"p", "r", "access">>},
        tags \in UNION {[1..n -> Tags] : n \in 1..2},
        kd \in {"value", "list"}}
    \cup {[params |-> ps, defaults |-> <<>>, kind |-> kd] :
        ps \in {<<"p">>, <<"p", "r">>}, kd \in {"value", "list"}}

HasDefaultArg(sig) == \E i \in 1..Len(sig.params) : sig.params[i] = _DEFAULT_ARG

\* __parseDefaultArgs, when `access` is among the parameters.
parseDefaultArgs(sig) ==
    LET idx == (CHOOSE i \in 1..Len(sig.params) : sig.params[i] = _DEFAULT_ARG) - 1
        numPosArgs == Len(sig.params) - Len(sig.defaults)
    IN  PyIndex(sig.defaults, idx - numPosArgs)

parseAccessOK(key) == key \in DOMAIN _ACCESS_DICT

parseAccess(key) == _ACCESS_DICT[key]

\* __toTree
toTree(raw) ==
    IF raw.type = "tree" THEN raw.tree
    ELSE <<[path |-> <<0>>, items |-> raw.items]>>

\* _Dimension.__init__ and its length property
Dimension(indices, trailingZeroes) ==
    [indices |-> indices, trailingZeroes |-> trailingZeroes]

DimLength(dim) == Len(dim.indices) - dim.trailingZeroes

\* The zeroes that end a path.
RECURSIVE CountTrailingZeroes(_)
CountTrailingZeroes(p) ==
    IF p = <<>> \/ p[Len(p)] # 0 THEN 0
    ELSE 1 + CountTrailingZeroes(SubSeq(p, 1, Len(p) - 1))

\* _Dimension.getDim
getDim(tree) ==
    LET branchCount == Len(tree)
        indices == tree[branchCount].path
        trailingZeroes == IF branchCount > 1 THEN CountTrailingZeroes(indices) ELSE 0
    IN  Dimension(ListOf([i \in 1..Len(indices) |-> indices[i] + 1]),
                  trailingZeroes)

\* MatchSlot with the argument's indices aligned to the left.
MatchSlotLeftAligned(length, dim, i) == i

\* The slot of matchedIndices that index i (0-based) of dim is compared with.
MatchSlot(length, dim, i) == length - DimLength(dim) + i

\* The inner loop of matchDims, from index i (0-based) of dim on.
RECURSIVE MatchOne(_, _, _, _)
MatchOne(matchedIndices, length, dim, i) ==
    IF i >= Len(dim.indices) THEN matchedIndices
    ELSE LET j == MatchSlot(length, dim, i)
             d == dim.indices[i + 1]
             jj == IF j >= 0 THEN j + 1 ELSE Len(matchedIndices) + j + 1
         IN  MatchOne(IF d > PyIndex(matchedIndices, j)
                      THEN [matchedIndices EXCEPT ![jj] = d]
                      ELSE matchedIndices,
                      length, dim, i + 1)

\* The outer loop of matchDims, from the n-th dimension on.
RECURSIVE MatchAll(_, _, _, _)
MatchAll(matchedIndices, length, ds, n) ==
    IF n > Len(ds) THEN matchedIndices
    ELSE MatchAll(MatchOne(matchedIndices, length, ds[n], 0), length, ds, n + 1)

\* matchDims raises no IndexError: every slot it reads exists.
matchDimsOK(ds) ==
    LET length == MaxOf({DimLength(ds[n]) : n \in 1..Len(ds)})
        trailingZeroes == MaxOf({ds[n].trailingZeroes : n \in 1..Len(ds)})
        ones == ListOf([k \in 1..(length + trailingZeroes) |-> 1])
    IN  \A n \in 1..Len(ds) : \A i \in 0..(Len(ds[n].indices) - 1) :
            PyIndexOK(ones, MatchSlot(length, ds[n], i))

\* _Dimension.matchDims
matchDims(ds) ==
    LET length == MaxOf({DimLength(ds[n]) : n \in 1..Len(ds)})
        trailingZeroes == MaxOf({ds[n].trailingZeroes : n \in 1..Len(ds)})
        ones == ListOf([k \in 1..(length + trailingZeroes) |-> 1])
    IN  Dimension(MatchAll(ones, length, ds, 1), trailingZeroes)

\* _Dimension.__getUnmatchIndex
getUnmatchIndex(dim, matched) ==
    LET start == DimLength(matched) - DimLength(dim)
        end == start + Len(dim.indices)
    IN  <<start, end>>

\* _Dimension.unmatch
unmatch(dim, matched, indices) ==
    LET jk == getUnmatchIndex(dim, matched) IN PySlice(indices, jk[1], jk[2])

RECURSIVE product(_)
product(s) == IF Len(s) = 1 THEN s[1] ELSE s[Len(s)] * product(SubSeq(s, 1, Len(s) - 1))

\* generatePathsIndices with the first index varying fastest.
generatePathsIndicesFirstFastest(dim) ==
    LET indices == dim.indices
        size == product(indices)
        rep == [i \in 1..Len(indices) |->
                   IF i = 1 THEN 1 ELSE product(SubSeq(indices, 1, i - 1))]
    IN  ListOf([j \in 1..size |->
            ListOf([i \in 1..Len(indices) |->
                       ((j - 1) \div rep[i]) % indices[i]])])

\* __generatePathsIndices
generatePathsIndices(dim) ==
    LET indices == dim.indices
        size == product(indices)
        rep == [i \in 1..Len(indices) |-> size \div product(SubSeq(indices, 1, i))]
    IN  ListOf([j \in 1..size |->
            ListOf([i \in 1..Len(indices) |->
                       ((j - 1) \div rep[i]) % indices[i]])])

\* unmatchedIndices without the clamp to the argument's own sizes.
unmatchedIndicesUnclamped(dim, matched, pathIndices) ==
    unmatch(dim, matched, pathIndices)

\* The path __branchWrapper looks up for an argument.
unmatchedIndices(dim, matched, pathIndices) ==
    LET u == unmatch(dim, matched, pathIndices)
    IN  ListOf([i \in 1..Min(Len(u), Len(dim.indices)) |->
                   Min(u[i], dim.indices[i] - 1)])

\* branchWrapper returning the branch itself whatever the access.
branchWrapperUnwrapped(tree, dim, matched, pathIndices, acc) ==
    LET look == Branch(tree, unmatchedIndices(dim, matched, pathIndices))
    IN  [isNone |-> ~look.found, elems |-> look.items]

\* __branchWrapper: a Python list, or None when the host finds no branch.
\* A branch passed whole is one value of the list.
branchWrapper(tree, dim, matched, pathIndices, acc) ==
    LET look == Branch(tree, unmatchedIndices(dim, matched, pathIndices))
    IN  IF acc = ACCESS_list
        THEN [isNone |-> FALSE,
              elems |-> <<[tag |-> "branch", found |-> look.found,
                           items |-> look.items]>>]
        ELSE [isNone |-> ~look.found, elems |-> look.items]

\* rowIndex without the repetition of the last item.
rowIndexUnpadded(b, i) == i

\* The index __dataWrapper reads of branch b for row i (0-based).
rowIndex(b, i) == Min(Len(b.elems) - 1, i)

\* __dataWrapper raises no IndexError.
dataWrapperOK(branches) ==
    LET l == MaxOf({Len(branches[n].elems) : n \in 1..Len(branches)})
    IN  \A i \in 0..(l - 1) : \A n \in 1..Len(branches) :
            PyIndexOK(branches[n].elems, rowIndex(branches[n], i))

\* __dataWrapper
dataWrapper(branches) ==
    LET l == MaxOf({Len(branches[n].elems) : n \in 1..Len(branches)})
    IN  ListOf([r \in 1..l |->
            ListOf([n \in 1..Len(branches) |->
                PyIndex(branches[n].elems, rowIndex(branches[n], r - 1))])])

\* __funcWrapper: the user function returns one value, or a list of two.
funcWrapper(kd, row) ==
    IF kd = "list"
    THEN [isList |-> TRUE,
          val |-> <<[fn |-> "f", part |-> 0, argv |-> row],
                    [fn |-> "f", part |-> 1, argv |-> row]>>]
    ELSE [isList |-> FALSE, val |-> <<[fn |-> "f", part |-> 0, argv |-> row]>>]

\* The loop body of __call__ that stores the entries of one coordinate.
RECURSIVE addEntries(_, _, _, _)
addEntries(tree, entries, indices, i) ==
    IF i > Len(entries) THEN tree
    ELSE addEntries(AddRange(tree, entries[i].val, Append(indices, i - 1)),
                    entries, indices, i + 1)

\* storeEntries that spreads the first returned list over the sub-paths,
\* one element each.
storeEntriesPerElement(tree, entries, indices) ==
    IF entries[1].isList
    THEN addEntries(tree,
                    ListOf([k \in 1..Len(entries[1].val) |->
                               [isList |-> TRUE, val |-> <<entries[1].val[k]>>]]),
                    indices, 1)
    ELSE AddRange(tree, ListOf([i \in 1..Len(entries) |-> entries[i].val[1]]),
                  indices)

storeEntries(tree, entries, indices) ==
    IF entries[1].isList
    THEN addEntries(tree, entries, indices, 1)
    ELSE AddRange(tree, ListOf([i \in 1..Len(entries) |-> entries[i].val[1]]),
                  indices)

storedPaths(entries, indices) ==
    IF entries[1].isList
    THEN ListOf([i \in 1..Len(entries) |-> Append(indices, i - 1)])
    ELSE <<indices>>

----------------------------------------------------------------------------
(* RhinoDocContext *)

GhDoc == "ghdoc"

RhinoActiveDoc == "rhinodoc"

CtxIds == 1..MaxCtx

NoCtx == [made |-> FALSE, ghdoc |-> GhDoc, rhinodoc |-> GhDoc]

NoExit == [happened |-> FALSE, before |-> GhDoc, after |-> GhDoc]

----------------------------------------------------------------------------
(* Initial states *)

ThInit ==
    /\ phase = "undecorated"
    /\ nargs = 0
    /\ kind = "value"
    /\ access = <<>>
    /\ rawTypes = <<>>
    /\ args = <<>>
    /\ dims = <<>>
    /\ matchedDim = Dimension(<<>>, 0)
    /\ pathsIndices = <<>>
    /\ pos = 0
    /\ result = <<>>
    /\ added = <<>>
    /\ calls = <<>>
    /\ err = "none"

CtxInit ==
    /\ scdoc = GhDoc
    /\ ctxs = [c \in CtxIds |-> NoCtx]
    /\ stack = <<>>
    /\ raising = FALSE
    /\ exitLog = NoExit

Init == ThInit /\ CtxInit

----------------------------------------------------------------------------
(* TreeHandler.__init__ *)

Decorate ==
    /\ phase = "undecorated"
    /\ \E sig \in Signatures :
        /\ nargs' = Len(sig.params) - Len(sig.defaults)
        /\ kind' = sig.kind
        /\ IF ~HasDefaultArg(sig)
           THEN /\ phase' = "decoError"
                /\ err' = "Exception"
                /\ access' = <<>>
           ELSE LET paramsAccess == parseDefaultArgs(sig)
                IN  IF \A i \in 1..Len(paramsAccess) : parseAccessOK(paramsAccess[i])
                    THEN /\ phase' = "ready"
                         /\ err' = "none"
                         /\ access' = ListOf([i \in 1..Len(paramsAccess) |->
                                                 parseAccess(paramsAccess[i])])
                    ELSE /\ phase' = "decoError"
                         /\ err' = "KeyError"
                         /\ access' = <<>>
        /\ UNCHANGED <<rawTypes, args, dims, matchedDim, pathsIndices, pos, result,
                       added, calls>>
        /\ UNCHANGED ctxVars

(* TreeHandler.__call__, up to its loop; no keyword arguments are passed *)

Call ==
    /\ phase = "ready"
    /\ \E raw \in CallArgs(nargs) :
        /\ LET trees == ListOf([a \in 1..nargs |-> toTree(raw[a])])
               ds == ListOf([a \in 1..nargs |-> getDim(trees[a])])
           IN  /\ rawTypes' = ListOf([a \in 1..nargs |-> raw[a].type])
               /\ args' = trees
               /\ dims' = ds
               /\ IF matchDimsOK(ds)
                  THEN /\ matchedDim' = matchDims(ds)
                       /\ pathsIndices' = generatePathsIndices(matchDims(ds))
                       /\ phase' = "running"
                       /\ err' = "none"
                  ELSE /\ matchedDim' = matchedDim
                       /\ pathsIndices' = <<>>
                       /\ phase' = "error"
                       /\ err' = "IndexError"
        /\ pos' = 0
        /\ result' = <<>>
        /\ added' = <<>>
        /\ calls' = <<>>
        /\ UNCHANGED <<nargs, kind, access>>
        /\ UNCHANGED ctxVars

\* The first argument whose branch cannot be fetched, 0 when there is none:
\* its access tag is missing, or the host raises for a path it does not
\* hold.
FailingArg(indices, hostRaises) ==
    LET bad == {a \in 1..nargs :
                   \/ a > Len(access)
                   \/ /\ hostRaises
                      /\ ~HasPath(args[a],
                             unmatchedIndices(dims[a], matchedDim, indices))}
    IN  IF bad = {} THEN 0 ELSE CHOOSE a \in bad : \A b \in bad : a <= b

(* One iteration of the loop of __call__.  The host either raises for a   *)
(* path the tree does not hold or returns no branch (None).               *)

Visit ==
    /\ phase = "running"
    /\ pos < Len(pathsIndices)
    /\ \E hostRaises \in BOOLEAN :
        /\ LET indices == pathsIndices[pos + 1]
               failing == FailingArg(indices, hostRaises)
               branches == ListOf([a \in 1..nargs |->
                               branchWrapper(args[a], dims[a], matchedDim, indices,
                                             access[a])])
           IN  IF failing # 0
               THEN /\ phase' = "error"
                    /\ err' = IF failing > Len(access) THEN "IndexError" ELSE "KeyError"
                    /\ UNCHANGED <<pos, result, added, calls>>
               ELSE IF \E a \in 1..nargs : branches[a].isNone
               THEN /\ phase' = "error"
                    /\ err' = "TypeError"
                    /\ UNCHANGED <<pos, result, added, calls>>
               ELSE IF ~dataWrapperOK(branches)
               THEN /\ phase' = "error"
                    /\ err' = "IndexError"
                    /\ UNCHANGED <<pos, result, added, calls>>
               ELSE LET rows == ListOf(dataWrapper(branches))
                        entries == ListOf([r \in 1..Len(rows) |->
                                              funcWrapper(kind, rows[r])])
                        invoked == ListOf([r \in 1..Len(rows) |->
                                              [coord |-> indices, row |-> r - 1,
                                               argv |-> rows[r]]])
                    IN  /\ calls' = calls \o invoked
                        /\ IF Len(entries) = 0
                           THEN /\ phase' = "error"
                                /\ err' = "IndexError"
                                /\ UNCHANGED <<pos, result, added>>
                           ELSE /\ phase' = "running"
                                /\ err' = "none"
                                /\ pos' = pos + 1
                                /\ result' = storeEntries(result, entries, indices)
                                /\ added' = added \o storedPaths(entries, indices)
        /\ UNCHANGED <<nargs, kind, access, rawTypes, args, dims, matchedDim,
                       pathsIndices>>
        /\ UNCHANGED ctxVars

(* The end of __call__ *)

Return ==
    /\ phase = "running"
    /\ pos = Len(pathsIndices)
    /\ phase' = "returned"
    /\ UNCHANGED <<nargs, kind, access, rawTypes, args, dims, matchedDim,
                   pathsIndices, pos, result, added, calls, err>>
    /\ UNCHANGED ctxVars

Next ==
    \/ Decorate
    \/ Call
    \/ Visit
    \/ Return

Spec == Init /\ [][Next]_vars

----------------------------------------------------------------------------
(* RhinoDocContext.__init__: `c = RhinoDocContext()`.  An object that no   *)
(* with-block holds may be dropped and its name bound to a new one.        *)
(* contextmanager.py reads Rhino.RhinoDoc.ActiveDoc without importing      *)
(* Rhino; the name is taken to be bound by the host, otherwise no object   *)
(* is ever constructed and nothing below can run.                          *)

Construct(c) ==
    /\ ~raising
    /\ \A k \in 1..Len(stack) : stack[k].id # c
    /\ ctxs' = [ctxs EXCEPT ![c] = [made |-> TRUE, ghdoc |-> scdoc,
                                    rhinodoc |-> RhinoActiveDoc]]
    /\ UNCHANGED <<scdoc, stack, raising, exitLog>>
    /\ UNCHANGED thVars

(* RhinoDocContext.__enter__: `with c:` *)

Enter(c) ==
    /\ ~raising
    /\ ctxs[c].made
    /\ Len(stack) < MaxNest
    /\ stack' = Append(stack, [id |-> c, before |-> scdoc])
    /\ scdoc' = ctxs[c].rhinodoc
    /\ UNCHANGED <<ctxs, raising, exitLog>>
    /\ UNCHANGED thVars

(* The body of the innermost with-block raises: the with-blocks are left,  *)
(* innermost first, until the script's top level catches the exception.    *)

BodyRaises ==
    /\ ~raising
    /\ stack # <<>>
    /\ raising' = TRUE
    /\ UNCHANGED <<scdoc, ctxs, stack, exitLog>>
    /\ UNCHANGED thVars

(* RhinoDocContext.__exit__: the innermost with-block is left, normally or *)
(* by an exception.                                                        *)

Exit ==
    /\ stack # <<>>
    /\ LET top == stack[Len(stack)]
       IN  /\ scdoc' = ctxs[top.id].ghdoc
           /\ exitLog' = [happened |-> TRUE, before |-> top.before,
                          after |-> ctxs[top.id].ghdoc]
    /\ stack' = SubSeq(stack, 1, Len(stack) - 1)
    /\ raising' = (raising /\ Len(stack) > 1)
    /\ UNCHANGED ctxs
    /\ UNCHANGED thVars

(* A method of NewLayerContext: `with RhinoDocContext(): <host calls>`,    *)
(* with a temporary object constructed, entered and left in one statement; *)
(* the host calls may raise.                                               *)

LayerMethod(raises) ==
    /\ ~raising
    /\ LET tmp == [made |-> TRUE, ghdoc |-> scdoc, rhinodoc |-> RhinoActiveDoc]
       IN  /\ scdoc' = tmp.ghdoc
           /\ exitLog' = [happened |-> TRUE, before |-> scdoc, after |-> tmp.ghdoc]
    /\ raising' = (raises /\ stack # <<>>)
    /\ UNCHANGED <<ctxs, stack>>
    /\ UNCHANGED thVars

NextCtx ==
    \/ \E c \in CtxIds : Construct(c)
    \/ \E c \in CtxIds : Enter(c)
    \/ BodyRaises
    \/ Exit
    \/ \E raises \in BOOLEAN : LayerMethod(raises)

SpecCtx == Init /\ [][NextCtx]_vars

----------------------------------------------------------------------------
(* Properties of a call of the decorated function *)

\* The call has computed its matched dimension.
HasMatched ==
    \/ phase \in {"running", "returned"}
    \/ phase = "error" /\ pathsIndices # <<>>

\* The coordinates of a shape: the cartesian product of [0, d_i).
Box(ind) ==
    {c \in [1..Len(ind) -> 0..(MaxOf(Range(ind)) - 1)] :
        \A i \in 1..Len(ind) : c[i] < ind[i]}

\* The coordinates already visited.
Visited == {pathsIndices[k] : k \in 1..pos}

\* The path of argument a at a coordinate: the argument's slice of the
\* coordinate, each component clamped to the argument's own size less one.
ClampedPath(a, coord) ==
    LET start == DimLength(matchedDim) - DimLength(dims[a])
    IN  ListOf([i \in 1..Len(dims[a].indices) |->
                   Min(coord[start + i], dims[a].indices[i] - 1)])

\* The branch of argument a selected at a coordinate.
Selected(a, coord) == Branch(args[a], ClampedPath(a, coord))

\* A branch delivered whole.
Whole(b) == [tag |-> "branch", found |-> b.found, items |-> b.items]

\* What the zip of __dataWrapper sees of argument a at a coordinate: the
\* branch's items, or the whole branch as one value.
Zipped(a, coord) ==
    IF access[a] = ACCESS_list THEN <<Whole(Selected(a, coord))>>
    ELSE Selected(a, coord).items

\* The invocations made at a coordinate.
CallsAt(coord) == {n \in 1..Len(calls) : calls[n].coord = coord}

\* Every parameter has its access tag.
Tagged == Len(access) >= nargs

\* The value the user function returns for a row when it returns no list.
F(row) == [fn |-> "f", part |-> 0, argv |-> row]

\* C1: an argument declared "list" is delivered to the user function as
\* the whole branch at its clamped path, never split, whatever the lengths
\* of the other arguments' branches; when every argument is "list" the
\* user function is called exactly once per coordinate.
C1_ListWhole ==
    (HasMatched /\ Tagged) =>
        /\ \A n \in 1..Len(calls) : \A a \in 1..nargs :
               access[a] = ACCESS_list =>
                   calls[n].argv[a] = Whole(Selected(a, calls[n].coord))
        /\ (\A a \in 1..nargs : access[a] = ACCESS_list) =>
               \A c \in Visited : Cardinality(CallsAt(c)) = 1

\* A branch of two items delivered whole in the second invocation at a
\* coordinate, beside an item of a branch of another argument.
C1_Witness ==
    /\ phase = "returned"
    /\ nargs = 2
    /\ \E n \in 1..Len(calls) : \E a \in 1..nargs :
           /\ calls[n].row = 1
           /\ access[a] = ACCESS_list
           /\ access[3 - a] = ACCESS_item
           /\ Len(calls[n].argv[a].items) = 2

\* C2 as stated: at every coordinate, for any lengths of the selected
\* branches, a difference in branch lengths never raises an error.
C2_AnyLengths ==
    (/\ phase = "error"
     /\ HasMatched
     /\ Tagged
     /\ \A a \in 1..nargs : Selected(a, pathsIndices[pos + 1]).found)
    => \A a, b \in 1..nargs :
           Len(Zipped(a, pathsIndices[pos + 1])) = Len(Zipped(b, pathsIndices[pos + 1]))

\* C2 amended: at every coordinate, for any non-zero lengths of the
\* selected branches, the user function is invoked once per row i in
\* 0..L-1, L the length of the longest branch, and row i takes from each
\* branch the element at index min(i, len(branch)-1); the call raises at a
\* coordinate only when a tag or a branch is missing or a selected branch
\* is empty.
C2_Padding ==
    /\ (HasMatched /\ Tagged) =>
            /\ \A c \in Visited :
                   LET L == MaxOf({Len(Zipped(a, c)) : a \in 1..nargs})
                   IN  /\ Cardinality(CallsAt(c)) = L
                       /\ {calls[n].row : n \in CallsAt(c)} = 0..(L - 1)
                       /\ \A n \in CallsAt(c) : \A a \in 1..nargs :
                              /\ Len(Zipped(a, c)) >= 1
                              /\ calls[n].argv[a] =
                                     Zipped(a, c)[Min(calls[n].row, Len(Zipped(a, c)) - 1) + 1]
            /\ phase = "error" =>
                   \E a \in 1..nargs :
                       \/ ~Selected(a, pathsIndices[pos + 1]).found
                       \/ Zipped(a, pathsIndices[pos + 1]) = <<>>
    /\ (phase = "error" /\ HasMatched /\ ~Tagged) => pos = 0

\* Branches of two items and of one item paired at a coordinate: the
\* second row repeats the single item.
C2_Witness ==
    /\ phase = "returned"
    /\ nargs = 2
    /\ access = <<ACCESS_item, ACCESS_item>>
    /\ \E n \in 1..Len(calls) :
           /\ calls[n].row = 1
           /\ calls[n].argv[1].k = 1
           /\ calls[n].argv[2].k = 0
           /\ Len(Zipped(2, calls[n].coord)) = 1

\* C3: for trees A and B of equal shape (here: of the same paths, ragged
\* trees included) and access ["item", "item"], the call completes without
\* error and yields one output path per input path, each output branch
\* computed from the elements of A's and B's branches at that path.
C3_EqualShape ==
    (/\ HasMatched
     /\ nargs = 2
     /\ access = <<ACCESS_item, ACCESS_item>>
     /\ kind = "value"
     /\ TreePaths(args[1]) = TreePaths(args[2])
     /\ \A k \in 1..Len(args[1]) :
            Len(args[1][k].items) = Len(args[2][k].items) /\ args[1][k].items # <<>>)
    => /\ phase # "error"
       /\ phase = "returned" =>
              /\ TreePaths(result) = TreePaths(args[1])
              /\ \A k \in 1..Len(result) :
                     result[k].items =
                         ListOf([i \in 1..Len(args[1][k].items) |->
                                    F(<<args[1][k].items[i], args[2][k].items[i]>>)])

\* A: n branches of one item each at paths (0,)..(n-1,).
SingleItemBranches(tree) ==
    \A k \in 1..Len(tree) : tree[k].path = <<k - 1>> /\ Len(tree[k].items) = 1

\* B: one branch of one item.
OneItemTree(tree) == Len(tree) = 1 /\ Len(tree[1].items) = 1

\* C4 as stated: for A of n single-item branches at (0,)..(n-1,) and B a
\* scalar or any one-branch tree, access ["item", "item"], the output has
\* exactly n branches at paths (0,)..(n-1,), branch i holding f(A_i, b).
C4_AnyOneBranchTree ==
    (/\ phase = "returned"
     /\ nargs = 2
     /\ access = <<ACCESS_item, ACCESS_item>>
     /\ kind = "value"
     /\ SingleItemBranches(args[1])
     /\ OneItemTree(args[2]))
    => result = ListOf([k \in 1..Len(args[1]) |->
                           [path |-> <<k - 1>>,
                            items |-> <<F(<<args[1][k].items[1],
                                            args[2][1].items[1]>>)>>]])

\* C4 amended: for A of n single-item branches at (0,)..(n-1,) and B a
\* scalar or a tree whose one branch is at path (0,) and holds one item b,
\* access ["item", "item"] and a user function returning no list, the
\* path used for B is clamped to (0,) at every coordinate, the call does
\* not raise, and the output has exactly n branches at paths (0,)..(n-1,),
\* branch i holding f(A_i, b).
C4_Broadcast ==
    (/\ HasMatched
     /\ nargs = 2
     /\ access = <<ACCESS_item, ACCESS_item>>
     /\ kind = "value"
     /\ SingleItemBranches(args[1])
     /\ OneItemTree(args[2])
     /\ args[2][1].path = <<0>>)
    => /\ phase # "error"
       /\ Len(pathsIndices) = Len(args[1])
       /\ phase = "returned" => pos = Len(args[1])
       /\ result = ListOf([k \in 1..pos |->
                              [path |-> <<k - 1>>,
                               items |-> <<F(<<args[1][k].items[1],
                                               args[2][1].items[1]>>)>>]])

\* Three single-item branches broadcast against a scalar.
C4_Witness ==
    /\ phase = "returned"
    /\ nargs = 2
    /\ access = <<ACCESS_item, ACCESS_item>>
    /\ kind = "value"
    /\ SingleItemBranches(args[1])
    /\ Len(args[1]) = 3
    /\ rawTypes[2] = "scalar"
    /\ Len(result) = 3

\* C6 as stated: when an invocation at a coordinate returns a list,
\* sub-path coordinate+[k] corresponds to the k-th element of that list.
C6_PerElement ==
    (HasMatched /\ kind = "list") =>
        /\ \A n \in 1..Len(calls) : calls[n].coord \in Visited =>
               \A k \in 0..1 : HasPath(result, Append(calls[n].coord, k))
        /\ \A k \in 1..Len(result) : \A i \in 1..Len(result[k].items) :
               result[k].items[i].part = result[k].path[Len(result[k].path)]

\* C6 amended: when the invocations at a coordinate return lists, the
\* output tree has one extra path level below the coordinate whose
\* sub-paths enumerate the invocations (the rows) at that coordinate:
\* sub-path coordinate+[i] holds the elements of the list returned by the
\* i-th invocation.
C6_PerRow ==
    (HasMatched /\ kind = "list") =>
        /\ \A n \in 1..Len(calls) :
               Branch(result, Append(calls[n].coord, calls[n].row)) =
                   [found |-> TRUE,
                    items |-> <<[fn |-> "f", part |-> 0, argv |-> calls[n].argv],
                                [fn |-> "f", part |-> 1, argv |-> calls[n].argv]>>]
        /\ \A k \in 1..Len(result) : \E n \in 1..Len(calls) :
               result[k].path = Append(calls[n].coord, calls[n].row)
        /\ TreePaths(result) = added

\* A call that returned after two list-returning invocations at one
\* coordinate.
C6_Witness ==
    /\ phase = "returned"
    /\ kind = "list"
    /\ \E n \in 1..Len(calls) :
           /\ calls[n].row = 1
           /\ HasPath(result, Append(calls[n].coord, 1))

\* C7: a function whose `access` default lists a number of tags different
\* from the number of its other parameters fails at decoration, so that no
\* call of it starts a broadcast.
C7_TagCount ==
    phase \in {"running", "returned"} => Len(access) = nargs

\* The shape of a tree by the data model: per level one more than the
\* largest index over all paths; the trailing levels at which every index
\* is 0, none for a tree of one branch.
RECURSIVE ZeroLevels(_, _)
ZeroLevels(tree, l) ==
    IF l = 0 \/ \E k \in 1..Len(tree) : tree[k].path[l] # 0 THEN 0
    ELSE 1 + ZeroLevels(tree, l - 1)

DataModelShape(tree) ==
    LET depth == Len(tree[1].path)
    IN  Dimension(ListOf([l \in 1..depth |->
                             1 + MaxOf({tree[k].path[l] : k \in 1..Len(tree)})]),
                  IF Len(tree) = 1 THEN 0 ELSE ZeroLevels(tree, depth))

\* C10: getDim returns the shape defined by the data model.
C10_DataModelShape ==
    phase \in {"running", "returned", "error"} =>
        \A a \in 1..nargs : dims[a] = DataModelShape(args[a])

----------------------------------------------------------------------------
(* Properties of RhinoDocContext *)

\* C8: after each exit the active document pointer equals the value it had
\* immediately before the matching enter.
C8_Restores == exitLog.happened => exitLog.after = exitLog.before

----------------------------------------------------------------------------

\* C9: matchDims returns a shape of length + trailingZeroes slots, length
\* and trailingZeroes being the maxima over the arguments; each slot is the
\* maximum of 1 and of every argument index landing on it when the
\* argument's indices are right-aligned at offset length - its own length;
\* no argument index falls outside the result, and matchDims never raises.
C9_MatchDims ==
    phase \in {"running", "returned", "error"} =>
        LET length == MaxOf({DimLength(dims[a]) : a \in 1..nargs})
            zeroes == MaxOf({dims[a].trailingZeroes : a \in 1..nargs})
            Lands(a, i, j) == j = length - DimLength(dims[a]) + i
        IN  /\ pathsIndices # <<>>
            /\ Len(matchedDim.indices) = length + zeroes
            /\ matchedDim.trailingZeroes = zeroes
            /\ DimLength(matchedDim) = length
            /\ \A a \in 1..nargs : \A i \in 1..Len(dims[a].indices) :
                   \E j \in 1..(length + zeroes) : Lands(a, i, j)
            /\ \A j \in 1..(length + zeroes) :
                   matchedDim.indices[j] =
                       MaxOf({1} \cup {dims[a].indices[i] :
                                 <<a, i>> \in {x \in (1..nargs) \X (1..(length + zeroes)) :
                                                /\ x[2] <= Len(dims[x[1]].indices)
                                                /\ Lands(x[1], x[2], j)}})

\* Two arguments of different lengths, one with a trailing zero, matched to
\* a shape that takes a size above 1 from each.
C9_Witness ==
    /\ phase = "returned"
    /\ nargs = 2
    /\ DimLength(dims[1]) < DimLength(dims[2])
    /\ dims[1].trailingZeroes = 1
    /\ dims[2].trailingZeroes = 0
    /\ matchedDim.indices = <<1, 2, 1>>

\* C5: the coordinates visited by a call are exactly the tuples of the
\* cartesian product of the matched shape, each once, in row-major order;
\* when the user function returns non-list values the output tree's paths
\* are these coordinates, added in that order.
C5_RowMajor ==
    HasMatched =>
        /\ \A i \in 1..Len(matchedDim.indices) : matchedDim.indices[i] >= 1
        /\ Len(pathsIndices) = Cardinality(Box(matchedDim.indices))
        /\ \A k \in 1..Len(pathsIndices) : pathsIndices[k] \in Box(matchedDim.indices)
        /\ \A k \in 1..(Len(pathsIndices) - 1) :
               PathLess(pathsIndices[k], pathsIndices[k + 1])
        /\ {calls[n].coord : n \in 1..Len(calls)} = Visited
        /\ \A n \in 1..(Len(calls) - 1) :
               \/ PathLess(calls[n].coord, calls[n + 1].coord)
               \/ /\ calls[n].coord = calls[n + 1].coord
                  /\ calls[n].row < calls[n + 1].row
        /\ phase = "returned" => pos = Len(pathsIndices)
        /\ kind = "value" =>
               /\ added = SubSeq(pathsIndices, 1, pos)
               /\ TreePaths(result) = added

\* A call that returned after visiting a shape of two levels, each of
\* size two.
C5_Witness ==
    /\ phase = "returned"
    /\ kind = "value"
    /\ matchedDim.indices = <<2, 2>>
    /\ added = <<<<0, 0>>, <<0, 1>>, <<1, 0>>, <<1, 1>>>>

====
